---- MODULE Spec2Model ----
(***************************************************************************)
(* Cat Litter Recommender (app.py): a Streamlit script that loads a        *)
(* product table, narrows it with sidebar filters and renders the result.  *)
(* Streamlit re-executes the whole script on every widget interaction, so  *)
(* each action below is one interaction followed by one full run of the    *)
(* script (sort, widgets, filtering, match count, display table).          *)
(*                                                                         *)
(* Numbers are fixed-point tenths (1.0 is 10, 2.5 is 25), so that the      *)
(* renderings "2" and "2.0" of the same quantity differ as they do in      *)
(* pandas.  A DataFrame is a record [cols, rows]: the set of column names  *)
(* and the rows by index label 1..n.  Views of it (the sorted frame, the   *)
(* filtered frame) are sequences of index labels, as pandas keeps the      *)
(* index through sort_values and boolean indexing.                         *)
(* The columns of performance_cols (app.py 37-44) are read by nothing      *)
(* after load_data and are left out of the dataset.                        *)
(***************************************************************************)
EXTENDS Integers, Sequences, FiniteSets, TLC

\* Bounds of the model.
MaxRows == 3
MaxClicks == 2

\* ---------------------------------------------------------------- cells
\* A raw cell of the query result: an integer, a float (in tenths), a string
\* or a NULL.
I(n) == [t |-> "int", v |-> n]
F(x) == [t |-> "float", v |-> x]
S(s) == [t |-> "str", s |-> s]
Null == [t |-> "null"]

\* The missing number (float NaN).  Every number of the data is >= 0.
NaN == -1
IsNaN(x) == x = NaN

Digits == <<"0", "1", "2", "3", "4", "5", "6", "7", "8", "9">>

\* str(n) of a non-negative Python int.
RECURSIVE IntStr(_)
IntStr(n) == IF n < 10 THEN Digits[n + 1]
             ELSE IntStr(n \div 10) \o Digits[(n % 10) + 1]

\* str(x) of a non-negative Python float with one fractional digit.
FloatStr(x) == IntStr(x \div 10) \o "." \o Digits[(x % 10) + 1]

\* The renderings the parser recognises: the integers 0 .. 9 and the floats
\* 0.0 .. 2.9.
IntSpellings == [n \in 0..9 |-> IntStr(n)]
FloatSpellings == [x \in 0..29 |-> FloatStr(x)]

\* pd.to_numeric(s, errors='coerce') of a string: the number it spells, as an
\* integer ("2") or a float ("2.0", "2.5"), else NaN.
ParseStr(s) ==
    IF \E n \in DOMAIN IntSpellings : IntSpellings[n] = s
    THEN 10 * (CHOOSE n \in DOMAIN IntSpellings : IntSpellings[n] = s)
    ELSE IF \E x \in DOMAIN FloatSpellings : FloatSpellings[x] = s
         THEN CHOOSE x \in DOMAIN FloatSpellings : FloatSpellings[x] = s
         ELSE NaN

\* pd.to_numeric(cell, errors='coerce') of a raw cell.
to_numeric(c) ==
    CASE c.t = "int"   -> 10 * c.v
      [] c.t = "float" -> c.v
      [] c.t = "str"   -> ParseStr(c.s)
      [] c.t = "null"  -> NaN

\* astype(str) of a raw cell of an object column: str(value).  The fillna('N/A')
\* that follows finds no missing value left: NULL has become the string "None".
astype_str(c) ==
    CASE c.t = "int"   -> IntStr(c.v)
      [] c.t = "float" -> FloatStr(c.v)
      [] c.t = "str"   -> c.s
      [] c.t = "null"  -> "None"

\* int(x) of a non-negative float.
ToInt(x) == x \div 10

\* ---------------------------------------------------------------- columns
categorical_cols == {"Scent", "Flushable", "Material Type", "Mfg_Location",
                     "Health_Monitoring", "Eco_friendly", "Clumping", "Qty"}
numeric_cols == {"Size", "Current_Price"}
performance_rating_cols == {"P_Odor_Blocking_T2_if_True", "P_Tracking_T2_if_True",
                            "P_Dust_T2_if_True", "P_Cleaning_T2_if_True"}

\* display_column_map: its keys in order, and the label of each key.
columns_to_show == <<"Amazon_Product", "Composition", "Size", "Qty", "Current_Price",
                     "Affiliate_url", "P_Odor_Blocking_T2_if_True",
                     "P_Tracking_T2_if_True", "P_Dust_T2_if_True",
                     "P_Cleaning_T2_if_True">>
display_column_map ==
    [c \in {columns_to_show[i] : i \in DOMAIN columns_to_show} |->
        CASE c = "Amazon_Product" -> "Product Name"
          [] c = "Composition" -> "Composition"
          [] c = "Size" -> "Size (lbs)"
          [] c = "Qty" -> "Quantity"
          [] c = "Current_Price" -> "Price ($)"
          [] c = "Affiliate_url" -> "Buy on Amazon"
          [] c = "P_Odor_Blocking_T2_if_True" -> "Odor Control"
          [] c = "P_Tracking_T2_if_True" -> "Tracking"
          [] c = "P_Dust_T2_if_True" -> "Dustiness"
          [] c = "P_Cleaning_T2_if_True" -> "Cleaning Ease"]

DisplayCols == DOMAIN display_column_map

\* Every column the script reads.
AllCols == categorical_cols \cup numeric_cols \cup DisplayCols \cup {"Mean_Performance"}

\* ---------------------------------------------------------------- datasets
\* The rows the warehouse table may hold.
Row(fl, sc, cl, eco, hm, mat, loc, qty, size, price, mp, name, p) ==
    [c \in AllCols |->
        CASE c = "Flushable" -> fl
          [] c = "Scent" -> sc
          [] c = "Clumping" -> cl
          [] c = "Eco_friendly" -> eco
          [] c = "Health_Monitoring" -> hm
          [] c = "Material Type" -> mat
          [] c = "Mfg_Location" -> loc
          [] c = "Qty" -> qty
          [] c = "Size" -> size
          [] c = "Current_Price" -> price
          [] c = "Mean_Performance" -> mp
          [] c \in performance_rating_cols -> p
          [] OTHER -> name]

RowPool ==
    { Row(S("Flushable"), S("Scented"), S("Clumping"), S("Eco-friendly"), S("Yes"),
          S("Clay"), S("USA"), I(1), I(1), I(2), I(5), S("A"), F(8)),
      Row(S("Not Flushable"), S("Unscented"), S("Non-Clumping"), S("No"), S("No"),
          S("Corn"), S("China"), F(20), I(2), I(1), I(5), S("B"), I(1)),
      Row(Null, Null, Null, Null, Null,
          Null, Null, Null, Null, S("n/a"), Null, Null, S("n/a")),
      Row(S("Flushable"), S("Unscented"), S("Clumping"), S("Eco-friendly"), S("No"),
          S("Clay"), S("China"), S("2"), I(3), I(2), I(7), S("D"), Null) }

\* The column sets the table may have: every column, or every column but the
\* attribute columns, but two option-list columns, the sort column and two
\* display-only columns, or but every column of the display mapping (which
\* holds Size, Qty and Current_Price).
ColumnSets ==
    { AllCols,
      AllCols \ {"Flushable", "Scent", "Clumping", "Eco_friendly", "Health_Monitoring"},
      AllCols \ {"Material Type", "Mfg_Location", "Mean_Performance",
                 "Composition", "P_Tracking_T2_if_True"},
      AllCols \ DisplayCols }

\* The tables the query may return: 0..MaxRows different rows, in any order, over
\* one of the column sets.
Tables == { [cols |-> cs, rows |-> rs] :
              cs \in ColumnSets,
              rs \in UNION {{r \in [1..n -> RowPool] : \A i, j \in 1..n : i # j => r[i] # r[j]} :
                            n \in 0..MaxRows} }

EmptyFrame == [cols |-> {}, rows |-> << >>]

\* A variant of empty: `if df is not None`, true of every frame.
empty_never(d) == FALSE

\* df.empty: an axis of length 0.
empty(d) == d.cols = {} \/ Len(d.rows) = 0

\* load_data, the data cleaning of a query result.
CleanCell(c, cell) ==
    IF c \in categorical_cols THEN astype_str(cell)
    ELSE IF c \in numeric_cols THEN to_numeric(cell)
    ELSE cell

load_data(table) ==
    [cols |-> table.cols,
     rows |-> [i \in DOMAIN table.rows |->
                 [c \in AllCols |-> CleanCell(c, table.rows[i][c])]]]

\* ---------------------------------------------------------------- helpers
Range(seq) == {seq[i] : i \in DOMAIN seq}
Index(d) == 1..Len(d.rows)

\* Series.unique() of a column, as a set.
unique(d, col) == {d.rows[i][col] : i \in Index(d)}

\* Comparisons of floats: every comparison with NaN is false.
Gt(a, b) == ~IsNaN(a) /\ ~IsNaN(b) /\ a > b
Lt(a, b) == ~IsNaN(a) /\ ~IsNaN(b) /\ a < b

\* min() and max() of a set of numbers: NaN for the empty set.
SetMin(vs) == IF vs = {} THEN NaN ELSE CHOOSE v \in vs : \A u \in vs : v <= u
SetMax(vs) == IF vs = {} THEN NaN ELSE CHOOSE v \in vs : \A u \in vs : v >= u

\* Series.dropna().min() and .max().
col_min(d, col) == SetMin({v \in unique(d, col) : ~IsNaN(v)})
col_max(d, col) == SetMax({v \in unique(d, col) : ~IsNaN(v)})

\* ---------------------------------------------------------------- default sort
\* The sort key of a row: its Mean_Performance as a float.
SortKey(d, i) == to_numeric(d.rows[i]["Mean_Performance"])

Perms(n) == {o \in [1..n -> 1..n] : \A i, j \in 1..n : i # j => o[i] # o[j]}

\* The orders sort_values(ascending=False) orders the key into: numbers first,
\* descending, then the rows without a number in their original order
\* (na_position='last').
Descending(d, o) ==
    \A a, b \in DOMAIN o :
        a < b =>
            \/ IsNaN(SortKey(d, o[b])) /\ ~IsNaN(SortKey(d, o[a]))
            \/ IsNaN(SortKey(d, o[b])) /\ IsNaN(SortKey(d, o[a])) /\ o[a] < o[b]
            \/ ~IsNaN(SortKey(d, o[b])) /\ ~IsNaN(SortKey(d, o[a]))
               /\ SortKey(d, o[a]) >= SortKey(d, o[b])

\* df.sort_values(by='Mean_Performance', ascending=False) with the default
\* kind='quicksort', which is not stable: the order of rows with equal keys is
\* whatever the build's quicksort leaves, so every descending order is possible.
sort_values(d) == {o \in Perms(Len(d.rows)) : Descending(d, o)}

\* Lines 73-74: the order of df after the default sort, which is skipped when
\* the column is absent.
DefaultSort(d) ==
    IF "Mean_Performance" \in d.cols THEN sort_values(d)
    ELSE {[i \in Index(d) |-> i]}

\* ---------------------------------------------------------------- widgets
AttrKeys == {"flush_yes", "flush_no", "scent_yes", "scent_no",
             "clumping_yes", "clumping_no", "eco_yes", "health_yes"}

\* The session's widget state when nothing has been touched; a slider has no
\* value before the script has built it.
NoWidgets == [chk |-> [k \in AttrKeys |-> FALSE],
              mat |-> {}, loc |-> {}, qty |-> {},
              size |-> << >>, price |-> << >>]

\* Lines 98-99, 109-110: the options of the Material Type and Product Origin
\* expanders (every distinct value of the column; none without the column).
mat_options(d) == IF "Material Type" \in d.cols THEN unique(d, "Material Type") ELSE {}
loc_options(d) == IF "Mfg_Location" \in d.cols THEN unique(d, "Mfg_Location") ELSE {}

\* Lines 120-121: the options of the Piece Count expander, the distinct numbers
\* the Qty strings parse to.
qty_options(d) ==
    IF "Qty" \in d.cols
    THEN {x \in {ParseStr(v) : v \in unique(d, "Qty")} : ~IsNaN(x)}
    ELSE {}

\* Lines 100-102 and 111-113: the checked options.
selected_mat_options(d, w) == {o \in mat_options(d) : o \in w.mat}
selected_loc_options(d, w) == {o \in loc_options(d) : o \in w.loc}
\* Lines 122-124: the labels str(int(option)) of the checked options.
selected_qty_options(d, w) == {IntStr(ToInt(o)) : o \in {x \in qty_options(d) : x \in w.qty}}

\* Lines 130-152: st.slider returns the session's value, which is its default
\* (min, max) until the user moves it.
SliderValue(d, col, cur) ==
    IF cur = << >> THEN <<col_min(d, col), col_max(d, col)>> ELSE cur

\* The widget state after a run: the sliders of the present columns have values.
Built(d, w) ==
    [w EXCEPT !.size = IF "Size" \in d.cols THEN SliderValue(d, "Size", @) ELSE @,
              !.price = IF "Current_Price" \in d.cols
                        THEN SliderValue(d, "Current_Price", @) ELSE @]

\* The positions a slider from mn to mx can be dragged to: its ends and the
\* whole numbers between them.
Stops(mn, mx) == {x \in mn..mx : x = mn \/ x = mx \/ x % 10 = 0}
SliderStops(d, col) == Stops(col_min(d, col), col_max(d, col))

\* ---------------------------------------------------------------- filtering
\* One statement of the filtering logic: `active` is its if-condition, `col`
\* the column its body indexes, `keep` the rows its mask is true for.
Filter(col, active, keep) == [col |-> col, active |-> active, keep |-> keep]

\* Series.isin(values) and Series == value: the index labels of the rows whose
\* cell is among the values.
isin(d, col, values) == {i \in Index(d) : d.rows[i][col] \in values}

\* A variant of between: the upper end left out (inclusive='left').
between_exclusive(d, col, lo, hi) ==
    {i \in Index(d) : ~IsNaN(d.rows[i][col]) /\ lo <= d.rows[i][col] /\ d.rows[i][col] < hi}

\* Series.between(lo, hi): inclusive at both ends, false for NaN.
between(d, col, lo, hi) ==
    {i \in Index(d) : ~IsNaN(d.rows[i][col]) /\ lo <= d.rows[i][col] /\ d.rows[i][col] <= hi}

\* A variant of pair_selections: both boxes checked taken as no restriction.
pair_selections_both_none(w, yes, yes_value, no, no_value) ==
    IF w.chk[yes] /\ w.chk[no] THEN {}
    ELSE (IF w.chk[yes] THEN {yes_value} ELSE {}) \cup (IF w.chk[no] THEN {no_value} ELSE {})

\* Lines 157, 160, 163: the stored values of the checked boxes of a pair.
pair_selections(w, yes, yes_value, no, no_value) ==
    (IF w.chk[yes] THEN {yes_value} ELSE {}) \cup (IF w.chk[no] THEN {no_value} ELSE {})

flushable_selections(w) ==
    pair_selections(w, "flush_yes", "Flushable", "flush_no", "Not Flushable")
scent_selections(w) ==
    pair_selections(w, "scent_yes", "Scented", "scent_no", "Unscented")
clumping_selections(w) ==
    pair_selections(w, "clumping_yes", "Clumping", "clumping_no", "Non-Clumping")

\* Lines 174-175 and 178-179: a range filter runs when its column exists and
\* the slider is off one of the ends of the column's range.
range_active(d, col, range) ==
    /\ col \in d.cols
    /\ \/ Gt(range[1], col_min(d, col))
       \/ Lt(range[2], col_max(d, col))

\* `if values: filtered_df = filtered_df[filtered_df[col].isin(values)]`
IsinFilter(d, col, values) == Filter(col, values # {}, isin(d, col, values))

\* `if checked: filtered_df = filtered_df[filtered_df[col] == value]`
EqFilter(d, col, checked, value) == Filter(col, checked, isin(d, col, {value}))

\* `if col in filtered_df.columns: if lo > min or hi < max: ...between(lo, hi)`
RangeFilter(d, col, active, range) ==
    Filter(col, active, IF active THEN between(d, col, range[1], range[2]) ELSE {})

\* Lines 157-180, the statements in the order of the script.
Filters(d, w) ==
    << IsinFilter(d, "Flushable", flushable_selections(w)),
       IsinFilter(d, "Scent", scent_selections(w)),
       IsinFilter(d, "Clumping", clumping_selections(w)),
       EqFilter(d, "Eco_friendly", w.chk["eco_yes"], "Eco-friendly"),
       EqFilter(d, "Health_Monitoring", w.chk["health_yes"], "Yes"),
       IsinFilter(d, "Material Type", selected_mat_options(d, w)),
       IsinFilter(d, "Mfg_Location", selected_loc_options(d, w)),
       IsinFilter(d, "Qty", selected_qty_options(d, w)),
       RangeFilter(d, "Size", range_active(d, "Size", w.size), w.size),
       RangeFilter(d, "Current_Price", range_active(d, "Current_Price", w.price), w.price) >>

\* Variants of Apply: the mask applied to df instead of filtered_df, and the
\* result put back into index order.
Apply_unchained(d, fd, f) ==
    IF fd.err \/ ~f.active THEN fd
    ELSE IF f.col \notin d.cols THEN [err |-> TRUE, idx |-> fd.idx]
    ELSE [err |-> FALSE, idx |-> SelectSeq([i \in Index(d) |-> i], LAMBDA i : i \in f.keep)]

Apply_reindexed(d, fd, f) ==
    IF fd.err \/ ~f.active THEN fd
    ELSE IF f.col \notin d.cols THEN [err |-> TRUE, idx |-> fd.idx]
    ELSE [err |-> FALSE,
          idx |-> SelectSeq([i \in Index(d) |-> i],
                            LAMBDA i : i \in f.keep /\ i \in Range(fd.idx))]

\* One statement applied to filtered_df: filtered_df[mask] keeps the rows of the
\* mask in their order; indexing a column the frame lacks raises KeyError, which
\* ends the run.
Apply(d, fd, f) ==
    IF fd.err \/ ~f.active THEN fd
    ELSE IF f.col \notin d.cols THEN [err |-> TRUE, idx |-> fd.idx]
    ELSE [err |-> FALSE, idx |-> SelectSeq(fd.idx, LAMBDA i : i \in f.keep)]

\* The statements from the k-th on, applied in turn.
RECURSIVE ApplyFrom(_, _, _, _)
ApplyFrom(d, fd, fs, k) ==
    IF k > Len(fs) THEN fd ELSE ApplyFrom(d, Apply(d, fd, fs[k]), fs, k + 1)

ApplyAll(d, fd, fs) == ApplyFrom(d, fd, fs, 1)

\* Lines 79-180: filtered_df starts as a copy of the sorted df and goes through
\* every statement.
Filtering(d, w, order) == ApplyAll(d, [err |-> FALSE, idx |-> order], Filters(d, w))

\* ---------------------------------------------------------------- display
\* Lines 225-227: a rating becomes to_numeric(...).fillna(0) * 100.
Percent(cell) == (IF IsNaN(to_numeric(cell)) THEN 0 ELSE to_numeric(cell)) * 100

\* A variant of existing_display_columns: the keys up to the first one the
\* frame lacks.
existing_display_columns_prefix(d) ==
    LET missing == {k \in DOMAIN columns_to_show : columns_to_show[k] \notin d.cols} IN
    IF missing = {} THEN columns_to_show
    ELSE SubSeq(columns_to_show, 1, SetMin(missing) - 1)

\* Line 230: the keys of display_column_map the frame has, in the map's order.
existing_display_columns(d) == SelectSeq(columns_to_show, LAMBDA c : c \in d.cols)

DisplayCell(d, i, c) ==
    IF c \in performance_rating_cols THEN Percent(d.rows[i][c]) ELSE d.rows[i][c]

\* A variant of display_df: the columns taken from df instead of the filtered
\* copy.
display_df_unfiltered(d, idx) ==
    LET shown == existing_display_columns(d) IN
    [columns |-> [k \in DOMAIN shown |-> display_column_map[shown[k]]],
     index   |-> [i \in Index(d) |-> i],
     data    |-> [r \in Index(d) |-> [k \in DOMAIN shown |-> DisplayCell(d, r, shown[k])]]]

\* Lines 235-236: the frame handed to st.dataframe: the existing columns under
\* their labels, one row per row of filtered_df, in its order.
display_df(d, idx) ==
    LET shown == existing_display_columns(d) IN
    [columns |-> [k \in DOMAIN shown |-> display_column_map[shown[k]]],
     index   |-> idx,
     data    |-> [r \in DOMAIN idx |-> [k \in DOMAIN shown |-> DisplayCell(d, idx[r], shown[k])]]]

\* Lines 104, 115, 126: the notes of the expanders whose column is absent.
SidebarNotes(d) ==
    (IF "Material Type" \in d.cols THEN {} ELSE {"No 'Material Type' data available."})
    \cup (IF "Mfg_Location" \in d.cols THEN {} ELSE {"No 'Product Origin' data available."})
    \cup (IF "Qty" \in d.cols THEN {} ELSE {"No 'Quantity' data available."})

\* ---------------------------------------------------------------- one run
\* What a run of the script leaves on the page.  count and table are << >> when
\* the run did not render them.
NoView == [state |-> "start", sorted |-> << >>, filtered |-> << >>,
           count |-> << >>, table |-> << >>, messages |-> {}]

\* Lines 183-258: the page of a run whose filtering ended with filtered_df = fd.
Render(d, order, fd, shown) ==
    IF fd.err
    THEN [NoView EXCEPT !.state = "error", !.sorted = order,
                        !.messages = SidebarNotes(d) \cup {"KeyError"}]
    ELSE [state    |-> "shown",
          sorted   |-> order,
          filtered |-> fd.idx,
          count    |-> <<Len(fd.idx)>>,
          table    |-> IF shown = << >> THEN << >> ELSE <<display_df(d, fd.idx)>>,
          messages |-> SidebarNotes(d) \cup {"Found matching products."}
                       \cup (IF shown = << >>
                             THEN {"No data to display based on the selected columns."}
                             ELSE {})]

\* Lines 68-260, after load_data: d is the loaded frame, w the widget state as
\* the run's widgets return it, order the outcome of the default sort.
Run(d, w, order, load_messages) ==
    IF empty(d)
    THEN [NoView EXCEPT !.state = "nodata",
                        !.messages = load_messages \cup {"Could not load data."}]
    ELSE Render(d, order, Filtering(d, w, order), existing_display_columns(d))

\* ---------------------------------------------------------------- state
VARIABLES
    cache,    \* st.cache_data of load_data: << >> or <<the frame it returned>>
    w,        \* the session's widget state
    view,     \* what the last run rendered
    clicks    \* clicks on the widgets so far

vars == <<cache, w, view, clicks>>

df == cache[1]

Init ==
    /\ cache = << >>
    /\ w = NoWidgets
    /\ view = NoView
    /\ clicks = 0

\* The first run of a session, the query succeeding with one of the tables.
FirstRun ==
    /\ cache = << >>
    /\ \E table \in Tables :
          /\ cache' = <<load_data(table)>>
          /\ w' = IF empty(cache'[1]) THEN w ELSE Built(cache'[1], w)
          /\ \E order \in DefaultSort(cache'[1]) :
                view' = Run(cache'[1], w', order, {})
    /\ UNCHANGED clicks

\* The first run of a session, the credentials, the query or the preparation
\* raising: load_data reports the error and returns an empty frame (61-64).
FirstRunFailed ==
    /\ cache = << >>
    /\ cache' = <<EmptyFrame>>
    /\ view' = Run(EmptyFrame, w, << >>,
                   {"An error occurred while connecting to BigQuery"})
    /\ UNCHANGED <<w, clicks>>

\* A later run, with the widget state nw.  load_data is served from the cache;
\* the sort is deterministic, so it orders the same frame as it did in the
\* first run.
RunAgain(nw) ==
    /\ w' = IF empty(df) THEN nw ELSE Built(df, nw)
    /\ view' = Run(df, w', view.sorted,
                   IF df = EmptyFrame
                   THEN {"An error occurred while connecting to BigQuery"} ELSE {})
    /\ UNCHANGED cache

\* The run that follows a click that has left the widget state nw.
Rerun(nw) ==
    /\ clicks' = clicks + 1
    /\ RunAgain(nw)

\* The widgets exist once a run has built the sidebar; the model follows a
\* session for MaxClicks clicks on them.
HasWidgets == clicks < MaxClicks /\ cache # << >> /\ ~empty(df)

\* The user reruns the script without touching a widget.
Refresh ==
    /\ cache # << >>
    /\ RunAgain(w)
    /\ UNCHANGED clicks

\* The user toggles one of the eight attribute checkboxes (86-93).
ToggleAttribute ==
    /\ HasWidgets
    /\ \E k \in AttrKeys : Rerun([w EXCEPT !.chk[k] = ~@])

Toggle(set, o) == IF o \in set THEN set \ {o} ELSE set \cup {o}

\* The user toggles an option of one of the three option lists (96-126).
ToggleMaterial ==
    /\ HasWidgets
    /\ \E o \in mat_options(df) : Rerun([w EXCEPT !.mat = Toggle(@, o)])

ToggleOrigin ==
    /\ HasWidgets
    /\ \E o \in loc_options(df) : Rerun([w EXCEPT !.loc = Toggle(@, o)])

ToggleQuantity ==
    /\ HasWidgets
    /\ \E o \in qty_options(df) : Rerun([w EXCEPT !.qty = Toggle(@, o)])

\* The user drags a slider to another interval (133-138, 145-150).
SlideSize ==
    /\ HasWidgets
    /\ "Size" \in df.cols
    /\ \E lo, hi \in SliderStops(df, "Size") :
          lo <= hi /\ <<lo, hi>> # w.size /\ Rerun([w EXCEPT !.size = <<lo, hi>>])

SlidePrice ==
    /\ HasWidgets
    /\ "Current_Price" \in df.cols
    /\ \E lo, hi \in SliderStops(df, "Current_Price") :
          lo <= hi /\ <<lo, hi>> # w.price /\ Rerun([w EXCEPT !.price = <<lo, hi>>])

Next ==
    \/ FirstRun
    \/ FirstRunFailed
    \/ Refresh
    \/ ToggleAttribute
    \/ ToggleMaterial
    \/ ToggleOrigin
    \/ ToggleQuantity
    \/ SlideSize
    \/ SlidePrice

Spec == Init /\ [][Next]_vars

\* ---------------------------------------------------------------- properties
Reverse(seq) == [k \in DOMAIN seq |-> seq[Len(seq) + 1 - k]]
Pos(seq, x) == CHOOSE k \in DOMAIN seq : seq[k] = x
NoDuplicates(seq) == \A p, q \in DOMAIN seq : p # q => seq[p] # seq[q]

\* a is b with some elements left out (b without duplicates).
SubSequence(a, b) ==
    /\ NoDuplicates(a)
    /\ Range(a) \subseteq Range(b)
    /\ \A p, q \in DOMAIN a : p < q => Pos(b, a[p]) < Pos(b, a[q])

Shown == view.state = "shown"
Cell(i, col) == df.rows[i][col]
Numbers(col) == {Cell(i, col) : i \in Index(df)} \ {NaN}

\* The restriction each kind of filter stands for, as the specification words it.
PairPasses(i, col, yes, yes_value, no, no_value) ==
    (w.chk[yes] \/ w.chk[no]) =>
        \/ w.chk[yes] /\ Cell(i, col) = yes_value
        \/ w.chk[no] /\ Cell(i, col) = no_value
FlagPasses(i, col, key, value) == w.chk[key] => Cell(i, col) = value
SetPasses(i, col, selected) == selected # {} => Cell(i, col) \in selected
RangeMoved(col, range) ==
    /\ col \in df.cols
    /\ Numbers(col) # {}
    /\ \/ \E v \in Numbers(col) : v < range[1]
       \/ \E v \in Numbers(col) : v > range[2]
RangePasses(i, col, range) ==
    RangeMoved(col, range) =>
        Cell(i, col) # NaN /\ range[1] <= Cell(i, col) /\ Cell(i, col) <= range[2]

FlushablePasses(i) ==
    PairPasses(i, "Flushable", "flush_yes", "Flushable", "flush_no", "Not Flushable")
ScentPasses(i) == PairPasses(i, "Scent", "scent_yes", "Scented", "scent_no", "Unscented")
ClumpingPasses(i) ==
    PairPasses(i, "Clumping", "clumping_yes", "Clumping", "clumping_no", "Non-Clumping")
QtyLabels == {IntStr(o \div 10) : o \in w.qty}

\* Row i satisfies every active filter.
Passes(i) ==
    /\ FlushablePasses(i) /\ ScentPasses(i) /\ ClumpingPasses(i)
    /\ FlagPasses(i, "Eco_friendly", "eco_yes", "Eco-friendly")
    /\ FlagPasses(i, "Health_Monitoring", "health_yes", "Yes")
    /\ SetPasses(i, "Material Type", w.mat)
    /\ SetPasses(i, "Mfg_Location", w.loc)
    /\ SetPasses(i, "Qty", QtyLabels)
    /\ RangePasses(i, "Size", w.size)
    /\ RangePasses(i, "Current_Price", w.price)

\* C1: the filtered view holds exactly the rows of the dataset that satisfy
\* every active filter (their conjunction), and applying the statements in the
\* opposite order gives the same view.
C1_FilteredIsConjunction ==
    Shown =>
        /\ view.filtered = SelectSeq(view.sorted, Passes)
        /\ ApplyAll(df, [err |-> FALSE, idx |-> view.sorted], Reverse(Filters(df, w)))
             = [err |-> FALSE, idx |-> view.filtered]

\* Two filters of different kinds are active; a row fails only the first, a
\* row fails only the second and a row is kept.
C1_Witness ==
    /\ Shown
    /\ w.chk["flush_yes"] /\ w.loc # {}
    /\ view.filtered # << >>
    /\ \E i \in Index(df) : FlushablePasses(i) /\ ~SetPasses(i, "Mfg_Location", w.loc)
    /\ \E i \in Index(df) : ~FlushablePasses(i) /\ SetPasses(i, "Mfg_Location", w.loc)

\* A filter whose column the dataset lacks.
FilterCols == {"Flushable", "Scent", "Clumping", "Eco_friendly", "Health_Monitoring",
               "Material Type", "Mfg_Location", "Qty", "Size", "Current_Price"}
Loaded == cache # << >> /\ ~empty(df)
PassesPresent(i) ==
    /\ "Flushable" \in df.cols => FlushablePasses(i)
    /\ "Scent" \in df.cols => ScentPasses(i)
    /\ "Clumping" \in df.cols => ClumpingPasses(i)
    /\ "Eco_friendly" \in df.cols => FlagPasses(i, "Eco_friendly", "eco_yes", "Eco-friendly")
    /\ "Health_Monitoring" \in df.cols => FlagPasses(i, "Health_Monitoring", "health_yes", "Yes")
    /\ "Material Type" \in df.cols => SetPasses(i, "Material Type", w.mat)
    /\ "Mfg_Location" \in df.cols => SetPasses(i, "Mfg_Location", w.loc)
    /\ "Qty" \in df.cols => SetPasses(i, "Qty", QtyLabels)
    /\ RangePasses(i, "Size", w.size)
    /\ RangePasses(i, "Current_Price", w.price)

\* C2: a filter whose column is absent from the dataset is inert whatever its
\* widgets are set to: the run raises no error and the filtered view is the one
\* the filters of the present columns give.
C2_AbsentColumnInert ==
    Loaded =>
        /\ view.state = "shown"
        /\ view.filtered = SelectSeq(view.sorted, PassesPresent)

\* C3: the reported match count is the number of dataset rows that satisfy the
\* conjunction of the active filters, it is the number of rows of the table
\* when a table is displayed, and it is the count the run reports on the same
\* dataset with every or with none of the display-only columns.
DisplayOnly == DisplayCols \ FilterCols
CountWith(cols) ==
    Run([df EXCEPT !.cols = cols], w, view.sorted, {}).count
C3_MatchCount ==
    Shown =>
        /\ view.count = <<Cardinality({i \in Index(df) : Passes(i)})>>
        /\ view.table # << >> => Len(view.table[1].data) = view.count[1]
        /\ CountWith(df.cols \ DisplayOnly) = view.count
        /\ CountWith(df.cols \cup DisplayOnly) = view.count

\* A filter has removed a row and kept another, with a table on the page.
C3_Witness ==
    /\ Shown
    /\ view.table # << >>
    /\ view.count[1] > 0
    /\ view.count[1] < Len(df.rows)

\* A filter has removed a row and the dataset has no column to display.
C3_WitnessNoTable ==
    /\ Shown
    /\ view.table = << >>
    /\ view.count[1] > 0
    /\ view.count[1] < Len(df.rows)

\* C4: the filtered view is a sub-sequence of the rows in the order of the
\* default sort, itself an arrangement of the dataset rows; and no run changes
\* the loaded dataset or the sorted order.
C4_ViewState ==
    Shown =>
        /\ Range(view.sorted) = Index(df) /\ NoDuplicates(view.sorted)
        /\ SubSequence(view.filtered, view.sorted)
C4_SubSequence ==
    /\ [] C4_ViewState
    /\ [][cache # << >> => (cache' = cache /\ (Loaded => view'.sorted = view.sorted))]_vars

\* The sort has reordered the rows and a filter has removed one that stands
\* between two kept rows.
C4_Witness ==
    /\ Shown
    /\ Len(view.filtered) >= 2
    /\ view.sorted # [i \in Index(df) |-> i]
    /\ \E p, q, r \in DOMAIN view.sorted :
          /\ p < q /\ q < r
          /\ view.sorted[p] \in Range(view.filtered)
          /\ view.sorted[q] \notin Range(view.filtered)
          /\ view.sorted[r] \in Range(view.filtered)

\* What the script renders in the same session with the widgets set to nw.
ViewWith(nw) == Run(df, nw, view.sorted, {})

\* C5: for each option list (Material Type, Product Origin, Piece Count), with
\* every option the list offers checked the filtered view and the match count
\* are those of the same selections with none of its options checked.
SameAs(other) == view.filtered = other.filtered /\ view.count = other.count
C5_AllOptionsAsNone ==
    Shown =>
        /\ (mat_options(df) # {} /\ w.mat = mat_options(df))
              => SameAs(ViewWith([w EXCEPT !.mat = {}]))
        /\ (loc_options(df) # {} /\ w.loc = loc_options(df))
              => SameAs(ViewWith([w EXCEPT !.loc = {}]))
        /\ (qty_options(df) # {} /\ w.qty = qty_options(df))
              => SameAs(ViewWith([w EXCEPT !.qty = {}]))

\* C6: a pair of checkboxes restricts the view of the other filters to nothing
\* when neither is checked, to the rows holding the stored value of the one
\* that is checked, and to the rows holding either stored value when both are.
PairKeeps(i, col, yes, yes_value, no, no_value) ==
    CASE w.chk[yes] /\ w.chk[no]  -> Cell(i, col) \in {yes_value, no_value}
      [] w.chk[yes] /\ ~w.chk[no] -> Cell(i, col) = yes_value
      [] ~w.chk[yes] /\ w.chk[no] -> Cell(i, col) = no_value
      [] OTHER -> TRUE
PairRestricts(col, yes, yes_value, no, no_value) ==
    view.filtered =
        SelectSeq(Filtering(df, [w EXCEPT !.chk[yes] = FALSE, !.chk[no] = FALSE],
                            view.sorted).idx,
                  LAMBDA i : PairKeeps(i, col, yes, yes_value, no, no_value))
C6_BooleanPair ==
    Shown =>
        /\ PairRestricts("Flushable", "flush_yes", "Flushable", "flush_no", "Not Flushable")
        /\ PairRestricts("Scent", "scent_yes", "Scented", "scent_no", "Unscented")
        /\ PairRestricts("Clumping", "clumping_yes", "Clumping", "clumping_no", "Non-Clumping")

\* Both boxes of a pair are checked; a row holding a third value is removed and
\* a row is kept.
C6_Witness ==
    /\ Shown
    /\ w.chk["scent_yes"] /\ w.chk["scent_no"]
    /\ view.filtered # << >>
    /\ \E i \in Index(df) :
          Cell(i, "Scent") \notin {"Scented", "Unscented"} /\ i \notin Range(view.filtered)

\* C7: a range filter restricts the view of the other filters only when the
\* interval's low end is above the column's minimum or its high end below the
\* column's maximum, and then to the rows with a value in [lo, hi], both ends
\* included, a missing value never; on the whole range it changes nothing.
Without(seq, k) == SubSeq(seq, 1, k - 1) \o SubSeq(seq, k + 1, Len(seq))
RangeRestricts(fs, col, k, range) ==
    (fs[k].col = col /\ col \in df.cols) =>
        LET others == ApplyAll(df, [err |-> FALSE, idx |-> view.sorted], Without(fs, k)).idx
        IN view.filtered =
             IF RangeMoved(col, range)
             THEN SelectSeq(others, LAMBDA i : /\ Cell(i, col) # NaN
                                              /\ range[1] <= Cell(i, col)
                                              /\ Cell(i, col) <= range[2])
             ELSE others
RangesRestrict(fs) ==
    /\ {k \in DOMAIN fs : fs[k].col \in numeric_cols} = {9, 10}
    /\ RangeRestricts(fs, "Size", 9, w.size)
    /\ RangeRestricts(fs, "Current_Price", 10, w.price)
C7_RangeFilter == Shown => RangesRestrict(Filters(df, w))

\* The slider stands on one value [v, v]: a row with that value is kept, a row
\* with another value and a row without a value are removed.
C7_Witness ==
    /\ Shown
    /\ "Size" \in df.cols
    /\ w.size[1] = w.size[2]
    /\ \E i \in Range(view.filtered) : Cell(i, "Size") = w.size[1]
    /\ \E i \in Index(df) : Cell(i, "Size") = NaN /\ i \notin Range(view.filtered)
    /\ \E i \in Index(df) : Cell(i, "Size") \notin {NaN, w.size[1]}

\* C8: the table's columns are the labels of the mapping's columns the dataset
\* has, once each, in the mapping's order, every row with one cell per column;
\* when the dataset has none of them the run shows a status message, no table.
SourceOf(label) == CHOOSE c \in DisplayCols : display_column_map[c] = label
C8_DisplayColumns ==
    Shown =>
        IF DisplayCols \cap df.cols = {}
        THEN /\ view.table = << >>
             /\ "No data to display based on the selected columns." \in view.messages
        ELSE /\ view.table # << >>
             /\ LET labels == view.table[1].columns IN
                  /\ Range(labels) = {display_column_map[c] : c \in DisplayCols \cap df.cols}
                  /\ NoDuplicates(labels)
                  /\ \A p, q \in DOMAIN labels :
                        p < q => Pos(columns_to_show, SourceOf(labels[p]))
                                   < Pos(columns_to_show, SourceOf(labels[q]))
                  /\ \A r \in DOMAIN view.table[1].data :
                        Len(view.table[1].data[r]) = Len(labels)

\* A table is shown without the columns the dataset lacks, among them one that
\* is not the mapping's last.
C8_Witness ==
    /\ Shown
    /\ view.table # << >>
    /\ "Composition" \notin df.cols
    /\ "Cleaning Ease" \in Range(view.table[1].columns)
    /\ view.table[1].data # << >>

\* C9: after load_data has failed the page is the "could not load data" state:
\* no widget state, no filtered view, no match count and no table, in the first
\* run and in every later one.
C9_LoadFailure ==
    cache = <<EmptyFrame>> =>
        /\ view.state = "nodata"
        /\ "Could not load data." \in view.messages
        /\ "Found matching products." \notin view.messages
        /\ view.filtered = << >> /\ view.count = << >> /\ view.table = << >>
        /\ w = NoWidgets

\* The load has failed.
C9_Witness ==
    /\ cache = <<EmptyFrame>>
    /\ view.state = "nodata"
    /\ "An error occurred while connecting to BigQuery" \in view.messages

\* C10: with a Mean_Performance column the displayed rows are in descending
\* order of it, and rows with equal Mean_Performance are in the order of the
\* loaded dataset.
Performance(i) == to_numeric(Cell(i, "Mean_Performance"))
C10_StableDescending ==
    (Shown /\ "Mean_Performance" \in df.cols /\ view.table # << >>) =>
        LET shown == view.table[1].index IN
        \A p, q \in DOMAIN shown :
            (p < q /\ Performance(shown[p]) # NaN /\ Performance(shown[q]) # NaN)
            => /\ Performance(shown[p]) >= Performance(shown[q])
               /\ Performance(shown[p]) = Performance(shown[q]) => shown[p] < shown[q]
====
